---------------------------- MODULE Spec2Model ----------------------------
(***************************************************************************)
(* Model of src/game_db.py: a SQLite-backed matchmaking helper for         *)
(* two-player games.                                                       *)
(*                                                                         *)
(* The database is the only shared state.  Every call opens its own        *)
(* connection (_get_conn); the sqlite3 module runs a SELECT in autocommit  *)
(* mode and opens a transaction only in front of an INSERT or UPDATE, so   *)
(* each SQL statement of a call is one atomic step on the database and     *)
(* other calls may commit between two statements of the same call.         *)
(* A write statement and the commit at the exit of the `with` block are    *)
(* one step: the writer holds the reserved lock in between and does        *)
(* nothing else.  Lock time-outs of the storage layer are not modelled.    *)
(*                                                                         *)
(* A process is a caller making one call at a time.  `ret` holds what a    *)
(* call gave its caller in the state right after it returned or raised,    *)
(* and is empty again after the next step.                                 *)
(***************************************************************************)
EXTENDS Integers, Sequences, FiniteSets, TLC

\* Number of callers that may be inside a call at the same time.
NProcs == 2

\* Number of calls made in a run.
MaxCalls == 5

Procs == 1..NProcs

\* A session id that no join_session ever generated ("unknown-id"); also the
\* value of `row` when the SELECT of join_session finds nothing.
NoSession == 0

\* A player id that no join_session ever generated.
Stranger == 0

VARIABLES
    sessions,   \* table sessions: id -> player_count, for the stored rows
    moves,      \* table moves: the stored rows, each with its ROWID
    pc,         \* position of each caller in its call
    call,       \* arguments and locals of each caller's call in progress
    ret,        \* arguments, locals and outcome of the call that just returned
    njoin,      \* number of join_session calls started
    nother,     \* number of other calls started
    issued,     \* history: player_id -> session_id returned by join_session
    accepted    \* history: the save_move calls that inserted, in order

vars == <<sessions, moves, pc, call, ret, njoin, nother, issued, accepted>>

NoCall ==
    [op |-> "none", session_id |-> NoSession, player_id |-> Stranger,
     choice |-> "", row |-> NoSession, players |-> 0, move_count |-> 0,
     phase |-> "", outcome |-> "pending", rows |-> <<>>, version |-> 0]

-----------------------------------------------------------------------------
\* Schema (init_db)

\* A check constraint that is one too wide.
CheckPlayerCountUpTo3(n) == n >= 0 /\ n <= 3

\* CHECK(player_count BETWEEN 0 AND 2)
CheckPlayerCount(n) == n >= 0 /\ n <= 2

\* A moves table without its uniqueness constraint.
NoUniqueMove(sid, pid) == TRUE

\* A uniqueness constraint on session_id alone.
UniqueSessionOnly(sid, pid) == \A r \in moves : r.session_id # sid

\* UNIQUE (session_id, player_id)
UniqueMove(sid, pid) ==
    \A r \in moves : ~(r.session_id = sid /\ r.player_id = pid)

\* FOREIGN KEY (session_id) REFERENCES sessions(id), with foreign_keys = ON
ForeignKeyOk(sid) == sid \in DOMAIN sessions

\* The ROWID given to a new row of moves: one more than the largest in use.
NewRowId ==
    IF moves = {} THEN 1
    ELSE 1 + CHOOSE m \in {r.rowid : r \in moves} :
                 \A r \in moves : r.rowid <= m

-----------------------------------------------------------------------------
\* Queries

\* The SELECT with WHERE player_count = 0: no session is ever eligible.
SelectJoinableEmpty ==
    LET open == {s \in DOMAIN sessions : sessions[s] = 0}
    IN  IF open = {} THEN {NoSession} ELSE open

\* SELECT id FROM sessions WHERE player_count = 1 LIMIT 1: any eligible row,
\* or no row.
SelectJoinable ==
    LET open == {s \in DOMAIN sessions : sessions[s] = 1}
    IN  IF open = {} THEN {NoSession} ELSE open

\* str(uuid.uuid4()) for a session: an id not in use.
NewSessionId == Cardinality(DOMAIN sessions) + 1

\* str(uuid.uuid4()) for a player: an id not in use.
NewPlayerId == njoin + 1

\* SELECT COUNT(*) FROM moves WHERE session_id = ?
CountMoves(sid) == Cardinality({r \in moves : r.session_id = sid})

\* A phase that is finished as soon as one move is stored.
PhaseEarlyFinish(players, n) ==
    IF players < 2 THEN "waiting_for_opponent"
    ELSE IF n < 1 THEN "waiting_for_moves"
    ELSE "finished"

\* A phase whose comparison of the two counts admits equality, so that a
\* session with both moves stored is still waiting.
PhaseNeverFinished(players, n) ==
    IF players < 2 THEN "waiting_for_opponent"
    ELSE IF n <= players THEN "waiting_for_moves"
    ELSE "finished"

\* A phase that takes a single player to be enough to play.
PhaseOnePlayerEnough(players, n) ==
    IF players < 1 THEN "waiting_for_opponent"
    ELSE IF n < players THEN "waiting_for_moves"
    ELSE "finished"

\* The phase decided by get_state from the two counts it read.
Phase(players, n) ==
    IF players < 2 THEN "waiting_for_opponent"
    ELSE IF n < players THEN "waiting_for_moves"
    ELSE "finished"

\* ORDER BY player_id instead of ROWID.
OrderByPlayer(r, s) == r.player_id < s.player_id

\* ORDER BY ROWID: r comes before s.
OrderBy(r, s) == r.rowid < s.rowid

RECURSIVE Sorted(_)
\* The rows of a result set in the order of OrderBy.
Sorted(rs) ==
    IF rs = {} THEN <<>>
    ELSE LET first == CHOOSE r \in rs : \A s \in rs \ {r} : OrderBy(r, s)
         IN  <<first>> \o Sorted(rs \ {first})

\* SELECT player_id, choice FROM moves WHERE session_id = ? ORDER BY ROWID,
\* as the list of dicts get_results builds from it.
SelectMoves(sid) ==
    LET rs == Sorted({r \in moves : r.session_id = sid})
    IN  [i \in 1..Len(rs) |->
            [player |-> rs[i].player_id, choice |-> rs[i].choice]]

-----------------------------------------------------------------------------
\* Inputs callers can supply

\* A caller is free to start a call.  Callers are anonymous: the free caller
\* with the lowest number makes the next call.
Free(p) ==
    /\ pc[p] = "idle"
    /\ \A q \in Procs : q < p => pc[q] # "idle"

\* The call of p returns (or raises) with the final record c.
Return(p, c) ==
    /\ ret' = c
    /\ call' = [call EXCEPT ![p] = NoCall]
    /\ pc' = [pc EXCEPT ![p] = "idle"]

RECURSIVE SumPlayers(_)
\* The sum of player_count over the sessions with ids in S.
SumPlayers(S) ==
    IF S = {} THEN 0
    ELSE LET s == CHOOSE x \in S : TRUE
         IN  sessions[s] + SumPlayers(S \ {s})

\* The number of writes committed so far (history only): every committed
\* write adds one player to a session or one row to moves.
DbVersion == SumPlayers(DOMAIN sessions) + Cardinality(moves)

\* Session ids a caller can pass: any stored id, or an unknown one.
SessionArgs == DOMAIN sessions \cup {NoSession}

\* Player ids a caller can pass: one returned by a join_session, or another.
PlayerArgs == DOMAIN issued \cup {Stranger}

\* The choice a caller passes.  The code never looks at it, so callers take
\* turns: successive calls alternate between the two values, and a player who
\* submits again does so with the same choice or with the other one.
ChoiceArgs == {IF nother % 2 = 0 THEN "rock" ELSE "paper"}

-----------------------------------------------------------------------------
Init ==
    /\ sessions = <<>>
    /\ moves = {}
    /\ pc = [p \in Procs |-> "idle"]
    /\ call = [p \in Procs |-> NoCall]
    /\ ret = NoCall
    /\ njoin = 0
    /\ nother = 0
    /\ issued = <<>>
    /\ accepted = <<>>

\* join_session, the SELECT and the generation of player_id.
join_select(p) ==
    /\ Free(p)
    /\ njoin + nother < MaxCalls
    /\ njoin' = njoin + 1
    /\ \E row \in SelectJoinable :
          call' = [call EXCEPT ![p] =
                      [NoCall EXCEPT !.op = "join_session",
                                     !.row = row, !.player_id = NewPlayerId]]
    /\ pc' = [pc EXCEPT ![p] = "join_write"]
    /\ ret' = NoCall
    /\ UNCHANGED <<sessions, moves, nother, issued, accepted>>

\* A join_session whose UPDATE sets player_count = 2 instead of adding one.
JoinWriteSetTwo(row) ==
    IF row # NoSession
    THEN [outcome |-> "ok", session_id |-> row,
          sessions |-> [sessions EXCEPT ![row] = 2]]
    ELSE [outcome |-> "ok", session_id |-> NewSessionId,
          sessions |-> (NewSessionId :> 1) @@ sessions]

\* A join_session whose increment is stored before the range of player_count
\* is checked, and stays stored when the check fails.
JoinWriteThenCheck(row) ==
    IF row # NoSession
    THEN LET n == sessions[row] + 1
         IN  [outcome |-> IF CheckPlayerCount(n) THEN "ok" ELSE "IntegrityError",
              session_id |-> IF CheckPlayerCount(n) THEN row ELSE NoSession,
              sessions |-> [sessions EXCEPT ![row] = n]]
    ELSE [outcome |-> "ok", session_id |-> NewSessionId,
          sessions |-> (NewSessionId :> 1) @@ sessions]

\* What the UPDATE or INSERT of a join_session that selected `row` does to
\* sessions: the new table and the session joined, or the constraint error.
JoinWrite(row) ==
    IF row # NoSession
    THEN LET n == sessions[row] + 1
         IN  IF CheckPlayerCount(n)
             THEN [outcome |-> "ok", session_id |-> row,
                   sessions |-> [sessions EXCEPT ![row] = n]]
             ELSE [outcome |-> "IntegrityError", session_id |-> NoSession,
                   sessions |-> sessions]
    ELSE [outcome |-> "ok", session_id |-> NewSessionId,
          sessions |-> (NewSessionId :> 1) @@ sessions]

\* join_session, the UPDATE or the INSERT, the commit and the return.
join_write(p) ==
    /\ pc[p] = "join_write"
    /\ LET w == JoinWrite(call[p].row)
       IN  /\ sessions' = w.sessions
           /\ Return(p, [call[p] EXCEPT !.session_id = w.session_id,
                                        !.outcome = w.outcome])
           /\ issued' = IF w.outcome = "ok"
                        THEN (call[p].player_id :> w.session_id) @@ issued
                        ELSE issued
    /\ UNCHANGED <<moves, njoin, nother, accepted>>

\* get_state, SELECT player_count FROM sessions WHERE id = ?, for the call
\* described by c.
ReadPlayers(p, c) ==
    /\ Free(p)
    /\ njoin + nother < MaxCalls
    /\ nother' = nother + 1
    /\ IF c.session_id \in DOMAIN sessions
       THEN /\ call' = [call EXCEPT ![p] =
                           [c EXCEPT !.players = sessions[c.session_id]]]
            /\ pc' = [pc EXCEPT ![p] = "count_moves"]
            /\ ret' = NoCall
       ELSE Return(p, [c EXCEPT !.outcome = "NotFound"])
    /\ UNCHANGED <<sessions, moves, njoin, issued, accepted>>

\* get_state(session_id) called directly.
get_state(p) ==
    \E sid \in SessionArgs :
        ReadPlayers(p, [NoCall EXCEPT !.op = "get_state",
                                      !.session_id = sid,
                                      !.version = DbVersion])

\* save_move(session_id, player_id, choice) up to the first SELECT of its
\* get_state.
save_move(p) ==
    \E sid \in SessionArgs, pid \in PlayerArgs, ch \in ChoiceArgs :
        ReadPlayers(p, [NoCall EXCEPT !.op = "save_move",
                                      !.session_id = sid, !.player_id = pid,
                                      !.choice = ch])

\* save_move without its check for a finished session.
RejectedOnlyWaiting(phase) == phase = "waiting_for_opponent"

\* save_move without its check for a missing opponent.
RejectedOnlyFinished(phase) == phase = "finished"

\* The phases in which save_move raises instead of inserting.
Rejected(phase) == phase \in {"waiting_for_opponent", "finished"}

\* get_state, SELECT COUNT(*) and the phase; for save_move also the two phase
\* checks that follow.
count_moves(p) ==
    /\ pc[p] = "count_moves"
    /\ LET n == CountMoves(call[p].session_id)
           ph == Phase(call[p].players, n)
           c == [call[p] EXCEPT !.move_count = n, !.phase = ph]
       IN  IF call[p].op = "get_state"
           THEN Return(p, [c EXCEPT !.outcome = "ok"])
           ELSE IF Rejected(ph)
           THEN Return(p, [c EXCEPT !.outcome = "InvalidState"])
           ELSE /\ call' = [call EXCEPT ![p] = c]
                /\ pc' = [pc EXCEPT ![p] = "insert"]
                /\ ret' = NoCall
    /\ UNCHANGED <<sessions, moves, njoin, nother, issued, accepted>>

\* The constraints of moves accept the row (session_id, player_id, ...).
InsertOk(sid, pid) == UniqueMove(sid, pid) /\ ForeignKeyOk(sid)

\* An INSERT whose first two values are in the wrong order.
MoveRowSwapped(c) ==
    [rowid |-> NewRowId, session_id |-> c.player_id,
     player_id |-> c.session_id, choice |-> c.choice]

\* The row INSERT INTO moves (session_id, player_id, choice) VALUES (?, ?, ?)
\* stores for the call c.
MoveRow(c) ==
    [rowid |-> NewRowId, session_id |-> c.session_id,
     player_id |-> c.player_id, choice |-> c.choice]

\* save_move, the INSERT INTO moves, the commit and the return.
insert_move(p) ==
    /\ pc[p] = "insert"
    /\ LET c == call[p]
       IN  IF InsertOk(c.session_id, c.player_id)
           THEN /\ moves' = moves \cup {MoveRow(c)}
                /\ accepted' = Append(accepted,
                                  [session_id |-> c.session_id,
                                   player_id |-> c.player_id,
                                   choice |-> c.choice])
                /\ Return(p, [c EXCEPT !.outcome = "ok"])
           ELSE /\ UNCHANGED <<moves, accepted>>
                /\ Return(p, [c EXCEPT !.outcome = "DuplicateMove"])
    /\ UNCHANGED <<sessions, njoin, nother, issued>>

\* A get_results that removes the rows it returns.
get_results_consuming(p) ==
    /\ Free(p)
    /\ njoin + nother < MaxCalls
    /\ nother' = nother + 1
    /\ \E sid \in SessionArgs :
          /\ Return(p, [NoCall EXCEPT !.op = "get_results",
                                      !.session_id = sid, !.outcome = "ok",
                                      !.rows = SelectMoves(sid),
                                      !.version = DbVersion])
          /\ moves' = {r \in moves : r.session_id # sid}
    /\ UNCHANGED <<sessions, njoin, issued, accepted>>

\* get_results(session_id): one SELECT.
get_results(p) ==
    /\ Free(p)
    /\ njoin + nother < MaxCalls
    /\ nother' = nother + 1
    /\ \E sid \in SessionArgs :
          Return(p, [NoCall EXCEPT !.op = "get_results",
                                   !.session_id = sid, !.outcome = "ok",
                                   !.rows = SelectMoves(sid),
                                   !.version = DbVersion])
    /\ UNCHANGED <<sessions, moves, njoin, issued, accepted>>

Step(p) ==
    \/ join_select(p)
    \/ join_write(p)
    \/ get_state(p)
    \/ save_move(p)
    \/ count_moves(p)
    \/ insert_move(p)
    \/ get_results(p)

Next == \E p \in Procs : Step(p)

Spec == Init /\ [][Next]_vars

\* No other caller is inside a call: calls run one after the other.
Quiet(p) == \A q \in Procs \ {p} : pc[q] = "idle"

SeqNext == \E p \in Procs : Quiet(p) /\ Step(p)

SeqSpec == Init /\ [][SeqNext]_vars

-----------------------------------------------------------------------------
\* Properties

\* The player ids among the moves of session sid in the table ms.
MovePlayersIn(ms, sid) ==
    {r.player_id : r \in {m \in ms : m.session_id = sid}}

\* The player ids among the stored moves of session sid.
MovePlayers(sid) == MovePlayersIn(moves, sid)

\* The pair (sid, pid) has a move in the table ms.
HasMoveIn(ms, sid, pid) ==
    \E r \in ms : r.session_id = sid /\ r.player_id = pid

\* The pair (sid, pid) has a stored move.
HasMove(sid, pid) == HasMoveIn(moves, sid, pid)

\* C1: in every reachable state every stored session has
\* 0 <= player_count <= 2, whatever the interleaving of the joins.
C1_PlayerCountInRange ==
    \A s \in DOMAIN sessions : sessions[s] >= 0 /\ sessions[s] <= 2

\* A join that lost the race for a session has just returned: the session it
\* selected is full and its own increment was refused.
C1_Witness ==
    /\ ret.op = "join_session"
    /\ ret.outcome = "IntegrityError"
    /\ sessions[ret.row] = 2

\* C2: a join_session that selected a session with player_count = 1 completes
\* successfully with a session id and a player id, also when another join
\* incremented that session first; it never ends in an error.
C2_LoserJoinsElsewhere ==
    (ret.op = "join_session" /\ ret.row # NoSession)
        => (ret.outcome = "ok" /\ ret.session_id \in DOMAIN sessions)

\* C3: once the N join_session calls started from the empty store have all
\* finished, the store holds N div 2 sessions with player_count = 2 and
\* N mod 2 sessions with player_count = 1.
C3_PairedOff ==
    (\A p \in Procs : pc[p] # "join_write")
        => /\ Cardinality({s \in DOMAIN sessions : sessions[s] = 2})
                  = njoin \div 2
           /\ Cardinality({s \in DOMAIN sessions : sessions[s] = 1})
                  = njoin % 2

\* C4: in every reachable state the number of distinct player ids among the
\* moves of a session is at most the session's player_count.
C4_MoversWithinPlayerCount ==
    \A s \in DOMAIN sessions : Cardinality(MovePlayers(s)) <= sessions[s]

\* C5 as stated: in a session with two participants, a save_move for a pair
\* (session_id, player_id) whose move another call already stored ends in
\* DuplicateMove and in no other kind of error.
C5_LoserGetsDuplicateMove ==
    [][(ret'.op = "save_move" /\ ret'.players = 2
            /\ HasMove(ret'.session_id, ret'.player_id))
          => ret'.outcome = "DuplicateMove"]_vars

\* C5 as amended: in a session with two participants in which no other
\* player's move is stored when the call returns, a save_move for a pair
\* (session_id, player_id) succeeds and stores the move if the pair had no
\* move, and ends in DuplicateMove if it had one; so of two concurrent calls
\* for the same pair exactly one succeeds and the other gets DuplicateMove.
C5_OneSuccessOneDuplicate ==
    [][(ret'.op = "save_move" /\ ret'.players = 2
            /\ MovePlayersIn(moves', ret'.session_id) \subseteq {ret'.player_id})
          => IF HasMove(ret'.session_id, ret'.player_id)
             THEN ret'.outcome = "DuplicateMove" /\ moves' = moves
             ELSE /\ ret'.outcome = "ok"
                  /\ HasMoveIn(moves', ret'.session_id, ret'.player_id)]_vars

\* The loser of two overlapping save_move calls for one pair has returned: its
\* phase check counted no move, the winner inserted, and it got DuplicateMove.
C5_Witness ==
    /\ ret.op = "save_move"
    /\ ret.players = 2
    /\ ret.move_count = 0
    /\ ret.outcome = "DuplicateMove"
    /\ MovePlayers(ret.session_id) = {ret.player_id}

\* C6: the moves table never holds two rows for one (session_id, player_id)
\* pair, and a stored row is never changed or removed by a later submission.
C6_OneMovePerPlayer ==
    [][/\ moves \subseteq moves'
       /\ \A r, t \in moves' :
              (r.session_id = t.session_id /\ r.player_id = t.player_id)
                  => r = t]_vars

\* A player who has a stored move submitted a different choice and was
\* refused as a duplicate.
C6_Witness ==
    /\ ret.op = "save_move"
    /\ ret.outcome = "DuplicateMove"
    /\ \E r \in moves :
          /\ r.session_id = ret.session_id
          /\ r.player_id = ret.player_id
          /\ r.choice # ret.choice

\* The outcome the ordered checks give save_move(sid, pid) on the stored data.
SaveMoveOutcome(sid, pid) ==
    IF sid \notin DOMAIN sessions THEN "NotFound"
    ELSE IF sessions[sid] < 2 THEN "InvalidState"
    ELSE IF CountMoves(sid) >= sessions[sid] THEN "InvalidState"
    ELSE IF HasMove(sid, pid) THEN "DuplicateMove"
    ELSE "ok"

\* C7: when calls run one after the other, save_move ends with the first
\* failing check in the order unknown session (NotFound), waiting for opponent
\* (InvalidState), finished (InvalidState), move already stored
\* (DuplicateMove), and succeeds only when none fails.
C7_ChecksInOrder ==
    [][ret'.op = "save_move"
          => ret'.outcome = SaveMoveOutcome(ret'.session_id, ret'.player_id)]_vars

\* A participant who already moved resubmitted after the session finished and
\* got InvalidState.
C7_Witness ==
    /\ ret.op = "save_move"
    /\ ret.outcome = "InvalidState"
    /\ ret.phase = "finished"
    /\ HasMove(ret.session_id, ret.player_id)

\* C8: get_results fails with NotFound for a session id that is not stored,
\* and for a stored session returns its moves without failing.
C8_ResultsNotFound ==
    ret.op = "get_results"
        => IF ret.session_id \in DOMAIN sessions
           THEN ret.outcome = "ok"
                /\ Len(ret.rows) = CountMoves(ret.session_id)
           ELSE ret.outcome = "NotFound"

RECURSIVE AcceptedFor(_, _)
\* The accepted moves of session sid in the log, oldest first.
AcceptedFor(log, sid) ==
    IF log = <<>> THEN <<>>
    ELSE LET a == Head(log)
             rest == AcceptedFor(Tail(log), sid)
         IN  IF a.session_id = sid
             THEN <<[player |-> a.player_id, choice |-> a.choice]>> \o rest
             ELSE rest

\* C9: get_results returns exactly the accepted moves of its session, each
\* once, in the order in which their inserts took effect, and no move of
\* another session.
C9_ResultsInInsertionOrder ==
    ret.op = "get_results"
        => ret.rows = AcceptedFor(accepted, ret.session_id)

\* get_results returned two moves of which the first inserted belongs to the
\* player with the larger id.
C9_Witness ==
    /\ ret.op = "get_results"
    /\ Len(ret.rows) = 2
    /\ ret.rows[1].player > ret.rows[2].player

\* Position of the phase of a stored session along
\* waiting_for_opponent -> waiting_for_moves -> finished.
PhaseRank(s) ==
    LET ph == Phase(sessions[s], CountMoves(s))
    IN  IF ph = "waiting_for_opponent" THEN 0
        ELSE IF ph = "waiting_for_moves" THEN 1
        ELSE 2

\* C10: the phase computed from the stored counts of a session only moves
\* forward, one phase at a time: it never goes back and never skips
\* waiting_for_moves.
C10_PhaseForward ==
    [][\A s \in DOMAIN sessions :
          /\ s \in DOMAIN sessions'
          /\ PhaseRank(s)' >= PhaseRank(s)
          /\ PhaseRank(s)' <= PhaseRank(s) + 1]_vars

\* A save_move has just finished a session.
C10_Witness ==
    /\ ret.op = "save_move"
    /\ ret.outcome = "ok"
    /\ PhaseRank(ret.session_id) = 2

\* C11: a step of get_state or get_results leaves sessions and moves as they
\* are, whether the call succeeds or fails, and of two calls of the same
\* operation with the same session_id, returning one right after the other
\* with no write committed since either started, the second returns what the
\* first returned.
C11_ReadsAreIdempotent ==
    [][/\ (\/ ret'.op \in {"get_state", "get_results"}
           \/ \E p \in Procs : call'[p].op = "get_state" /\ call'[p] # call[p])
          => (sessions' = sessions /\ moves' = moves)
       /\ (/\ ret.op \in {"get_state", "get_results"}
           /\ ret'.op = ret.op
           /\ ret'.session_id = ret.session_id
           /\ ret.version = DbVersion
           /\ ret'.version = DbVersion)
          => ret' = ret]_vars

\* A get_state of a session with a stored move has returned while a second
\* get_state of the same session, started on the same stored data, is in
\* progress.
C11_Witness ==
    /\ ret.op = "get_state"
    /\ ret.outcome = "ok"
    /\ ret.move_count = 1
    /\ ret.version = DbVersion
    /\ \E p \in Procs :
          /\ call[p].op = "get_state"
          /\ call[p].session_id = ret.session_id
          /\ call[p].version = DbVersion

\* C12: a join_session or save_move that ends in an error leaves sessions and
\* moves as they were: the two tables change only in the step in which a call
\* returns successfully.
C12_FailureWritesNothing ==
    [][ret'.outcome # "ok" => (sessions' = sessions /\ moves' = moves)]_vars

\* A join_session was refused by the check constraint on a session that
\* already has a stored move.
C12_Witness ==
    /\ ret.op = "join_session"
    /\ ret.outcome = "IntegrityError"
    /\ CountMoves(ret.row) > 0

\* C13 as stated: every stored move carries a player_id that a join_session
\* returned for the session of the move.
C13_OnlyJoinedPlayersMove ==
    \A r \in moves :
        r.player_id \in DOMAIN issued /\ issued[r.player_id] = r.session_id

\* C13 as amended: every stored move is the session_id, player_id and choice
\* given to the save_move call that inserted it, one row per accepted call;
\* the player id is whatever the caller passed, whether it joined the session,
\* joined another one or was never issued.
C13_MovesAreAcceptedSubmissions ==
    /\ Cardinality(moves) = Len(accepted)
    /\ \A r \in moves :
          /\ r.rowid \in 1..Len(accepted)
          /\ accepted[r.rowid] = [session_id |-> r.session_id,
                                  player_id |-> r.player_id,
                                  choice |-> r.choice]
          /\ r.player_id \in PlayerArgs

\* A session holds a move of a player id issued for another session and a
\* move of a player id that was never issued.
C13_Witness ==
    \E r, t \in moves :
        /\ r.session_id = t.session_id
        /\ r.player_id = Stranger
        /\ t.player_id \in DOMAIN issued
        /\ issued[t.player_id] # t.session_id

\* C14: when calls run one after the other, a join_session called while a
\* session has player_count = 1 returns the id of such a session, raises its
\* player_count to 2 and creates no session; called while there is none, it
\* creates one session with player_count = 1 and returns its id.  From the
\* empty store the joins with an even number find exactly one such session,
\* the one the join before created.
C14_SequentialJoin ==
    [][ret'.op = "join_session"
          => LET open == {s \in DOMAIN sessions : sessions[s] = 1}
                 sid == ret'.session_id
             IN  /\ ret'.outcome = "ok"
                 /\ Cardinality(open) = (njoin + 1) % 2
                 /\ IF open # {}
                    THEN /\ sid \in open
                         /\ sessions' = [sessions EXCEPT ![sid] = 2]
                    ELSE /\ sid \notin DOMAIN sessions
                         /\ sessions' = (sid :> 1) @@ sessions]_vars

\* The fourth join of a sequential run has filled the second session.
C14_Witness ==
    /\ ret.op = "join_session"
    /\ njoin = 4
    /\ Cardinality(DOMAIN sessions) = 2
    /\ sessions[ret.session_id] = 2

\* The phase as a function of a player count and a move count.
PhaseOfCounts(players, n) ==
    IF players < 2 THEN "waiting_for_opponent"
    ELSE IF players = 2 /\ n < players THEN "waiting_for_moves"
    ELSE "finished"

JoinedPlayers(s) == {pid \in DOMAIN issued : issued[pid] = s}

\* C16: no join is lost: in every reachable state the number of join_session
\* calls that returned the id of a session equals the stored player_count of
\* that session, and every id returned is the id of a stored session.
C16_NoLostJoin ==
    /\ \A s \in DOMAIN sessions : Cardinality(JoinedPlayers(s)) = sessions[s]
    /\ \A pid \in DOMAIN issued : issued[pid] \in DOMAIN sessions

\* Three joins are over, one of them refused after losing the race for a
\* session that the two others share.
C16_Witness ==
    /\ njoin = 3
    /\ \A p \in Procs : pc[p] = "idle"
    /\ Cardinality(DOMAIN issued) = 2
    /\ \E s \in DOMAIN sessions : sessions[s] = 2

\* C17: in every reachable state every stored move references a stored
\* session, and that session has player_count = 2: no move is stored for a
\* session that waits for its opponent or for an unknown session.
C17_MovesOnlyInFullSessions ==
    \A r \in moves :
        r.session_id \in DOMAIN sessions /\ sessions[r.session_id] = 2

\* A save_move for a session that waits for its opponent was refused while
\* another session has a stored move.
C17_Witness ==
    /\ ret.op = "save_move"
    /\ ret.outcome = "InvalidState"
    /\ ret.phase = "waiting_for_opponent"
    /\ sessions[ret.session_id] = 1
    /\ moves # {}

\* C18: in every reachable state at most one session has player_count = 1.
C18_AtMostOneOpenSession ==
    Cardinality({s \in DOMAIN sessions : sessions[s] = 1}) <= 1

-----------------------------------------------------------------------------
\* Runs in which every started call runs to completion and each participant
\* submits once

\* A save_move for the pair (sid, pid) is in progress.
Submitting(sid, pid) ==
    \E q \in Procs :
        /\ call[q].op = "save_move"
        /\ call[q].session_id = sid
        /\ call[q].player_id = pid

\* save_move called for a session with two players by one of the players that
\* joined it, who has not submitted a move for it before.
save_own_move(p) ==
    \E sid \in DOMAIN sessions, ch \in ChoiceArgs :
        \E pid \in JoinedPlayers(sid) :
            /\ sessions[sid] = 2
            /\ ~HasMove(sid, pid)
            /\ ~Submitting(sid, pid)
            /\ ReadPlayers(p, [NoCall EXCEPT !.op = "save_move",
                                             !.session_id = sid,
                                             !.player_id = pid,
                                             !.choice = ch])

LiveStep(p) ==
    \/ join_select(p)
    \/ join_write(p)
    \/ get_state(p)
    \/ save_own_move(p)
    \/ count_moves(p)
    \/ insert_move(p)
    \/ get_results(p)

LiveNext == \E p \in Procs : LiveStep(p)

\* A call that has started runs to its end: no statement waits for ever.
Completion ==
    \A p \in Procs :
        /\ WF_vars(join_write(p))
        /\ WF_vars(count_moves(p))
        /\ WF_vars(insert_move(p))

LiveSpec == Init /\ [][LiveNext]_vars /\ Completion

\* Both players that joined session s have a stored move for it or a
\* save_move for it in progress.
BothSubmitted(s) ==
    /\ s \in DOMAIN sessions
    /\ sessions[s] = 2
    /\ \A pid \in JoinedPlayers(s) : HasMove(s, pid) \/ Submitting(s, pid)

\* Session s is finished with exactly two stored moves.
FinishedWithTwoMoves(s) ==
    /\ s \in DOMAIN sessions
    /\ Phase(sessions[s], CountMoves(s)) = "finished"
    /\ CountMoves(s) = 2

\* C19: when the two players that joined a session with player_count = 2 each
\* call save_move once for it and no other player id submits to it, no such
\* call fails, and once both have called the session eventually is finished
\* with exactly two stored moves.
C19_BothMovesFinish ==
    /\ [](ret.op = "save_move" => ret.outcome = "ok")
    /\ \A s \in 1..MaxCalls :
          BothSubmitted(s) ~> FinishedWithTwoMoves(s)

\* The second of two overlapping submissions has returned: its phase check
\* counted no move, and the session now holds both moves.
C19_Witness ==
    /\ ret.op = "save_move"
    /\ ret.outcome = "ok"
    /\ ret.move_count = 0
    /\ FinishedWithTwoMoves(ret.session_id)

=============================================================================
